---- MODULE Spec2Model ----
(***************************************************************************)
(* Seaweed scale-up model: the daily growth-and-harvest loop of            *)
(* SeaweedScaleUpModel.seaweed_growth and the productivity calibration of  *)
(* SeaweedScaleUpModel.determine_average_productivity                      *)
(* (src/src/scaleup_model.py).                                             *)
(*                                                                         *)
(* Numbers.  The program computes with floats.  Here a real x is the       *)
(* integer floor(x * FP) (fixed point, three decimals); Mul and Div are    *)
(* the fixed-point product and quotient.  Day counts (current_day,         *)
(* harvest_intervall, days_to_run, initial_lag) are plain integers.        *)
(*                                                                         *)
(* Data frame.  df is a sequence of rows, one per day of                   *)
(* range(days_to_run); a cell is the empty set while nothing was written   *)
(* to it (pandas' NaN / missing column) and {v} once v was written.        *)
(***************************************************************************)
EXTENDS Integers, Sequences, FiniteSets, TLC

\* ------------------------------------------------------------- numbers

\* fixed-point scale: three decimals
FP == 10 * 10 * 10

\* the real number n (an integer) in fixed point
R(n) == n * FP

\* floor(a * b / FP), computed without leaving 32 bits
Mul(a, b) == (a \div FP) * b + ((a % FP) * b) \div FP

\* floor(a * FP / b) for b > 0, computed without leaving 32 bits
DivPos(a, b) == (a \div b) * FP + ((a % b) * FP) \div b

\* floor(a * FP / b) for b # 0
Div(a, b) == IF b > 0 THEN DivPos(a, b) ELSE DivPos(0 - a, 0 - b)

\* numpy's inf: the result of a float64 division by zero
Inf == 2147483646 + 1

\* numpy float64 division a / n of a fixed-point a by a day count n
NpDiv(a, n) == IF n = 0 THEN Inf ELSE a \div n

\* a data frame cell or an optional value: absent, or holding v
None == {}
Some(v) == {v}
Val(c) == CHOOSE v \in c : TRUE

\* ------------------------------------------------------------- bounds

\* the longest run, in days
MaxDays == 20

\* ---------------------------------------------------- pure functions

\* math.exp(-k) for the whole numbers k = 1..7, in fixed point
ExpNegWhole == <<368, 135, 50, 18, 7, 2, 1>>

\* math.exp(-f) for 0 <= f < 1 (fixed point): the degree-5 Taylor polynomial
ExpNegFrac(f) ==
    LET t5 == FP - f \div 5
        t4 == FP - Mul(f, t5) \div 4
        t3 == FP - Mul(f, t4) \div 3
        t2 == FP - Mul(f, t3) \div 2
    IN  FP - Mul(f, t2)

\* math.exp(-x) for x >= 0 (fixed point)
ExpNeg(x) ==
    LET k == x \div FP
        f == x % FP
    IN  IF k = 0 THEN ExpNegFrac(f)
        ELSE IF k > Len(ExpNegWhole) THEN 0
        ELSE Mul(ExpNegWhole[k], ExpNegFrac(f))

\* self_shading(density): density in kg/m2; the caller has checked density > 0
self_shading(d) ==
    IF d < 400 THEN FP ELSE ExpNeg(Mul(513, d - 400))

\* seaweed_farm_area_per_day(day) for day = 0..31, to three decimals:
\* logistic_curve(day, 4156.10385, 0.0283799528, 157.630971, -41.0270637)
AreaPerDayTable ==
    << 5845,  7179,  8550,  9959, 11409, 12898, 14430, 16005,
      17623, 19287, 20997, 22755, 24563, 26420, 28329, 30292,
      32308, 34381, 36511, 38701, 40950, 43262, 45638, 48080,
      50588, 53166, 55814, 58535, 61330, 64202, 67153, 70183>>

seaweed_farm_area_per_day(day) ==
    AreaPerDayTable[IF day + 1 > Len(AreaPerDayTable)
                    THEN Len(AreaPerDayTable) ELSE day + 1]

\* ---------------------------------------------------------- the state

VARIABLES
    cfg,                          \* the arguments of the call, and self.harvest_loss
    pc,                           \* where the call stands
    err,                          \* the exception that ended the call, or "none"
    current_day,
    new_module_area_per_day,
    current_area_built,
    current_area_used,
    current_seaweed,
    current_density,
    track_max_area,
    cumulative_harvest_for_food,
    current_seaweed_need,
    harvest_intervall,
    harvest_intervall_all,
    df,
    density,                      \* the argument of the last self_shading call
    self_shading_factor,
    stable_harvest_intervall,
    stable_harvest_for_food,
    productivity_day_km2

vars == <<cfg, pc, err, current_day, new_module_area_per_day, current_area_built,
          current_area_used, current_seaweed, current_density, track_max_area,
          cumulative_harvest_for_food, current_seaweed_need, harvest_intervall,
          harvest_intervall_all, df, density, self_shading_factor,
          stable_harvest_intervall, stable_harvest_for_food, productivity_day_km2>>

\* what determine_average_productivity sets
calibVars == <<stable_harvest_intervall, stable_harvest_for_food, productivity_day_km2>>

\* a row of the data frame with nothing written to it
EmptyRow ==
    [new_module_area_per_day |-> None, actual_growth_rate_multiplicator |-> None,
     harvest_intervall |-> None, seaweed_remaining_to_grow |-> None,
     harvest_wet |-> None, harvest_wet_with_loss |-> None,
     harvest_for_food |-> None, new_area_used |-> None,
     current_seaweed_need |-> None, current_area_built |-> None,
     current_area_used |-> None, current_seaweed |-> None,
     current_density |-> None, cumulative_harvest_for_food |-> None]

\* ---------------------------------------------------------- the inputs

\* growth_rate_fraction: a float, a list of floats, or anything else
Float(v) == [kind |-> "float", val |-> v, vals |-> <<>>]
List(vs) == [kind |-> "list", val |-> 0, vals |-> vs]
Other == [kind |-> "other", val |-> 0, vals |-> <<>>]

\* a list of n values v
Const(v, n) == [i \in 1..n |-> v]

GrowthRateFractions ==
    { Float(0), Float(FP \div 2), Float(FP),
      List(Const(FP, MaxDays)),             \* a time series covering the run
      List(Const(FP, 2)),                   \* a time series that is too short
      List(<<FP, FP + FP \div 2>>),         \* a value outside [0, 1]
      Other }

\* self.harvest_loss, in percent
HarvestLosses == { R(0), R(20), R(100), R(150), 0 - R(10) }

\* the arguments determine_average_productivity passes to seaweed_growth
CalibrationArgs(growth_rate_fraction, days_to_run, percent_usable_for_growth, optimal_growth_rate, harvest_loss) ==
    [initial_seaweed |-> R(1), initial_area_built |-> R(1),
     initial_area_used |-> R(1), new_module_area_per_day |-> 0,
     min_density |-> R(1200), max_density |-> R(3600), max_area |-> R(1),
     optimal_growth_rate |-> optimal_growth_rate,
     growth_rate_fraction |-> growth_rate_fraction, initial_lag |-> 0,
     percent_usable_for_growth |-> percent_usable_for_growth,
     days_to_run |-> days_to_run, calibration_run |-> TRUE,
     harvest_loss |-> harvest_loss]

\* calls of determine_average_productivity
CalibrationCalls ==
    { CalibrationArgs(g, n, R(100), o, l) :
        g \in GrowthRateFractions, n \in 0..MaxDays,
        o \in {R(60), R(100), R(150)}, l \in HarvestLosses }

\* direct calls of seaweed_growth
GrowthCalls ==
    [initial_seaweed : {0, R(1000), R(5000)},
     initial_area_built : {R(1), R(2), R(30)},
     initial_area_used : {R(1)},
     new_module_area_per_day : {0 - FP \div 10, 0, R(100)},
     min_density : {R(1200)}, max_density : {R(3600)},
     max_area : {R(20)},
     optimal_growth_rate : {R(100)},
     growth_rate_fraction : GrowthRateFractions,
     initial_lag : {0, 2},
     percent_usable_for_growth : {R(100)},
     days_to_run : {0, 1, MaxDays},
     calibration_run : {FALSE},
     harvest_loss : {R(0), R(20), R(150)}]

\* lines 84-95: the locals before the first day
Init ==
    /\ cfg \in CalibrationCalls \cup GrowthCalls
    /\ pc = "loop"
    /\ err = "none"
    /\ current_day = 0
    /\ new_module_area_per_day = cfg.new_module_area_per_day
    /\ current_area_built = cfg.initial_area_built
    /\ current_area_used = cfg.initial_area_used
    /\ current_seaweed = cfg.initial_seaweed
    /\ current_density = Div(cfg.initial_seaweed, cfg.initial_area_used)
    /\ track_max_area = FALSE
    /\ cumulative_harvest_for_food = 0
    /\ current_seaweed_need = 0
    /\ harvest_intervall = 0
    /\ harvest_intervall_all = <<>>
    /\ df = [i \in 1..cfg.days_to_run |-> EmptyRow]
    /\ density = 0
    /\ self_shading_factor = 0
    /\ stable_harvest_intervall = None
    /\ stable_harvest_for_food = None
    /\ productivity_day_km2 = None

\* df.loc[current_day, col] = v
SetCell(frame, col, v) ==
    [frame EXCEPT ![current_day + 1] = [@ EXCEPT ![col] = Some(v)]]

\* an exception leaves the call
Raise(e) ==
    /\ pc' = "failed"
    /\ err' = e

\* --------------------------------------------------- the daily steps

\* BuiltAfter without the clamp of lines 114-115
BuiltAfterNoClamp(built, growth_area_per_day, max_area) ==
    built + growth_area_per_day

\* lines 113-115: add the day's usable area and clamp to the maximum
BuiltAfter(built, growth_area_per_day, max_area) ==
    LET b == built + growth_area_per_day
    IN  IF b > max_area THEN max_area ELSE b

\* lines 97-122: the area that is built on current_day
Build ==
    /\ pc = "loop"
    /\ current_day < cfg.days_to_run
    /\ LET nm == IF new_module_area_per_day > 0
                 THEN seaweed_farm_area_per_day(current_day)
                 ELSE new_module_area_per_day
           growth_area_per_day == Mul(nm, cfg.percent_usable_for_growth \div 100)
       IN  /\ new_module_area_per_day' = nm
           /\ IF current_day > cfg.initial_lag
              THEN IF current_area_built < cfg.max_area
                   THEN /\ df' = SetCell(df, "new_module_area_per_day", nm)
                        /\ current_area_built' =
                             BuiltAfter(current_area_built, growth_area_per_day,
                                        cfg.max_area)
                        /\ UNCHANGED track_max_area
                   ELSE /\ df' = SetCell(df, "new_module_area_per_day", 0)
                        /\ track_max_area' =
                             IF ~track_max_area /\ ~cfg.calibration_run
                             THEN TRUE ELSE track_max_area
                        /\ UNCHANGED current_area_built
              ELSE /\ df' = SetCell(df, "new_module_area_per_day", 0)
                   /\ UNCHANGED <<current_area_built, track_max_area>>
    /\ pc' = "shade"
    /\ UNCHANGED <<cfg, err, current_day, current_area_used, current_seaweed,
                   current_density, cumulative_harvest_for_food,
                   current_seaweed_need, harvest_intervall, harvest_intervall_all,
                   density, self_shading_factor, calibVars>>

\* lines 123-125 and 286: self_shading(current_density / 1000)
Shade ==
    /\ pc = "shade"
    /\ density' = current_density \div 1000
    /\ IF density' > 0
       THEN /\ self_shading_factor' = self_shading(density')
            /\ pc' = "grow"
            /\ UNCHANGED err
       ELSE /\ Raise("AssertionError")
            /\ UNCHANGED self_shading_factor
    /\ UNCHANGED <<cfg, current_day, new_module_area_per_day, current_area_built,
                   current_area_used, current_seaweed, current_density,
                   track_max_area, cumulative_harvest_for_food,
                   current_seaweed_need, harvest_intervall, harvest_intervall_all,
                   df, calibVars>>

\* ActualGrowthRate without the growth rate fraction
ActualGrowthRateNoFraction(optimal_growth_rate, fraction, shading) ==
    FP + Mul(optimal_growth_rate, shading) \div 100

\* lines 132-135 and 142-149: the day's growth multiplier
ActualGrowthRate(optimal_growth_rate, fraction, shading) ==
    FP + Mul(Mul(optimal_growth_rate, fraction), shading) \div 100

\* FractionError with every value that is no list taken for a scalar
FractionErrorNoTypeCheck(g, day, shading) ==
    IF g.kind = "list"
    THEN IF \E i \in DOMAIN g.vals : ~(g.vals[i] <= FP /\ g.vals[i] >= 0)
         THEN "AssertionError"
         ELSE IF day + 1 > Len(g.vals) THEN "IndexError" ELSE "none"
    ELSE IF shading <= FP /\ shading >= 0 THEN "none" ELSE "AssertionError"

\* lines 129-151: the exception the growth_rate_fraction g makes the day's
\* growth step raise before a multiplier is computed, or "none"
FractionError(g, day, shading) ==
    IF g.kind = "float"
    THEN IF shading <= FP /\ shading >= 0 THEN "none" ELSE "AssertionError"
    ELSE IF g.kind = "list"
    THEN IF \E i \in DOMAIN g.vals : ~(g.vals[i] <= FP /\ g.vals[i] >= 0)
         THEN "AssertionError"
         ELSE IF day + 1 > Len(g.vals) THEN "IndexError" ELSE "none"
    ELSE "TypeError"

\* lines 129-157: let the seaweed grow
Grow ==
    /\ pc = "grow"
    /\ LET g == cfg.growth_rate_fraction
           e == FractionError(g, current_day, self_shading_factor)
       IN  IF e # "none"
           THEN /\ Raise(e)
                /\ UNCHANGED <<df, current_seaweed, current_density>>
           ELSE LET fraction == IF g.kind = "list" THEN g.vals[current_day + 1]
                                ELSE g.val
                    actual_growth_rate ==
                        ActualGrowthRate(cfg.optimal_growth_rate, fraction,
                                         self_shading_factor)
                IN  /\ df' = SetCell(df, "actual_growth_rate_multiplicator",
                                     actual_growth_rate)
                    /\ IF actual_growth_rate <= 2 * FP /\ actual_growth_rate >= 0
                       THEN /\ current_seaweed' = Mul(current_seaweed, actual_growth_rate)
                            /\ IF current_area_used = 0
                               THEN /\ Raise("ZeroDivisionError")
                                    /\ UNCHANGED current_density
                               ELSE /\ current_density' =
                                         Div(current_seaweed', current_area_used)
                                    /\ pc' = "harvest"
                                    /\ UNCHANGED err
                       ELSE /\ Raise("AssertionError")
                            /\ UNCHANGED <<current_seaweed, current_density>>
    /\ UNCHANGED <<cfg, current_day, new_module_area_per_day, current_area_built,
                   current_area_used, track_max_area, cumulative_harvest_for_food,
                   current_seaweed_need, harvest_intervall, harvest_intervall_all,
                   density, self_shading_factor, calibVars>>

\* line 182: what is left of the harvest after the loss
HarvestWetWithLoss(harvest_wet, harvest_loss) ==
    Mul(harvest_wet, FP - harvest_loss)

\* SeaweedNeed without the used area subtracted
SeaweedNeedAllBuilt(built, used, min_density) ==
    Mul(built, min_density)

\* lines 185-187: the seaweed needed to stock all the area built
SeaweedNeed(built, used, min_density) ==
    Mul(built - used, min_density)

\* line 190: the area newly stocked when the harvest cannot stock all of it
NewAreaUsedShort(need, harvest_wet_with_loss, min_density) ==
    Div(need, min_density)

\* line 197: the area newly stocked when the harvest covers the need
NewAreaUsedSurplus(need, min_density) ==
    Div(need, min_density)

\* HarvestLossOk without the lower bound of line 180
HarvestLossOkNoLowerBound(harvest_loss) ==
    harvest_loss <= FP

\* line 180: the loss fraction is accepted
HarvestLossOk(harvest_loss) ==
    harvest_loss <= FP /\ harvest_loss >= 0

\* CannotStockAll with the comparison of line 189 reversed
CannotStockAllReversed(need, harvest_wet_with_loss) ==
    need < harvest_wet_with_loss

\* line 189: the harvest cannot stock all the area built
CannotStockAll(need, harvest_wet_with_loss) ==
    need > harvest_wet_with_loss

\* RecordedIntervall with lines 164 and 167 swapped: the interval is
\* written after its reset
RecordedIntervallAfterReset(intervall) ==
    0

\* line 164: the interval written to the harvest day's row
RecordedIntervall(intervall) ==
    intervall

\* lines 158-202: the harvest of a day that reached the harvest density
Harvest ==
    /\ pc = "harvest"
    /\ current_density >= cfg.max_density
    /\ LET seaweed_remaining_to_grow == Mul(current_area_used, cfg.min_density)
           harvest_wet == current_seaweed - seaweed_remaining_to_grow
           harvest_loss == cfg.harvest_loss \div 100
           harvest_wet_with_loss == HarvestWetWithLoss(harvest_wet, harvest_loss)
           need == SeaweedNeed(current_area_built, current_area_used, cfg.min_density)
           df1 == SetCell(SetCell(SetCell(df,
                      "harvest_intervall", RecordedIntervall(harvest_intervall)),
                      "seaweed_remaining_to_grow", seaweed_remaining_to_grow),
                      "harvest_wet", harvest_wet)
           df2 == SetCell(df1, "harvest_wet_with_loss", harvest_wet_with_loss)
       IN  /\ harvest_intervall_all' = Append(harvest_intervall_all, harvest_intervall)
           /\ harvest_intervall' = 0
           /\ IF ~HarvestLossOk(harvest_loss)
              THEN /\ Raise("AssertionError")
                   /\ df' = df1
                   /\ UNCHANGED <<current_seaweed_need, current_area_used,
                                  current_seaweed, cumulative_harvest_for_food>>
              ELSE /\ current_seaweed_need' = need
                   /\ pc' = "record"
                   /\ UNCHANGED err
                   /\ IF CannotStockAll(need, harvest_wet_with_loss)
                      THEN LET new_area_used ==
                                   NewAreaUsedShort(need, harvest_wet_with_loss,
                                                    cfg.min_density)
                           IN  /\ current_area_used' = current_area_used + new_area_used
                               /\ current_seaweed' =
                                    seaweed_remaining_to_grow + harvest_wet_with_loss
                               /\ df' = SetCell(df2, "new_area_used", new_area_used)
                               /\ UNCHANGED cumulative_harvest_for_food
                      ELSE LET harvest_for_food == harvest_wet_with_loss - need
                               new_area_used == NewAreaUsedSurplus(need, cfg.min_density)
                           IN  /\ cumulative_harvest_for_food' =
                                    cumulative_harvest_for_food + harvest_for_food
                               /\ current_area_used' = current_area_used + new_area_used
                               /\ current_seaweed' =
                                    Mul(current_area_used', cfg.min_density)
                               /\ df' = SetCell(SetCell(df2,
                                            "harvest_for_food", harvest_for_food),
                                            "new_area_used", new_area_used)
    /\ UNCHANGED <<cfg, current_day, new_module_area_per_day, current_area_built,
                   current_density, track_max_area, density, self_shading_factor,
                   calibVars>>

\* line 159: the harvest density is not reached, nothing is harvested
SkipHarvest ==
    /\ pc = "harvest"
    /\ ~(current_density >= cfg.max_density)
    /\ pc' = "record"
    /\ UNCHANGED <<cfg, err, current_day, new_module_area_per_day,
                   current_area_built, current_area_used, current_seaweed,
                   current_density, track_max_area, cumulative_harvest_for_food,
                   current_seaweed_need, harvest_intervall, harvest_intervall_all,
                   df, density, self_shading_factor, calibVars>>

\* IntervallAfterDay with the increment of line 204 left out
IntervallAfterDayNoIncrement(intervall) ==
    intervall

\* line 204: the interval counter at the end of a day
IntervallAfterDay(intervall) ==
    intervall + 1

\* lines 203-212: count the day and write its state to the data frame
Record ==
    /\ pc = "record"
    /\ harvest_intervall' = IntervallAfterDay(harvest_intervall)
    /\ df' = [df EXCEPT ![current_day + 1] =
                [@ EXCEPT !.current_seaweed_need = Some(current_seaweed_need),
                          !.current_area_built = Some(current_area_built),
                          !.current_area_used = Some(current_area_used),
                          !.current_seaweed = Some(current_seaweed),
                          !.current_density = Some(current_density),
                          !.cumulative_harvest_for_food =
                              Some(cumulative_harvest_for_food)]]
    /\ current_day' = current_day + 1
    /\ pc' = "loop"
    /\ UNCHANGED <<cfg, err, new_module_area_per_day, current_area_built,
                   current_area_used, current_seaweed, current_density,
                   track_max_area, cumulative_harvest_for_food,
                   current_seaweed_need, harvest_intervall_all, density,
                   self_shading_factor, calibVars>>

\* lines 96 and 213: the days are over, the data frame is returned
Return ==
    /\ pc = "loop"
    /\ current_day >= cfg.days_to_run
    /\ pc' = "done"
    /\ UNCHANGED <<cfg, err, current_day, new_module_area_per_day,
                   current_area_built, current_area_used, current_seaweed,
                   current_density, track_max_area, cumulative_harvest_for_food,
                   current_seaweed_need, harvest_intervall, harvest_intervall_all,
                   df, density, self_shading_factor, calibVars>>

\* ------------------------------------------------------ the calibration

\* the column exists: some row had it written
HasColumn(frame, col) == \E i \in DOMAIN frame : frame[i][col] # None

\* Series.last_valid_index() of an existing column (as a 1-based row)
LastValidIndex(frame, col) ==
    CHOOSE i \in DOMAIN frame :
        /\ frame[i][col] # None
        /\ \A j \in DOMAIN frame : j > i => frame[j][col] = None

\* lines 265-268: productivity per km2 and day, or None
Productivity(intervall, for_food) ==
    IF intervall # None /\ for_food # None
    THEN Some(NpDiv(Val(for_food), Val(intervall)))
    ELSE None

\* lines 249-271: the stabilized values of the calibration run
DetermineAverageProductivity ==
    /\ pc = "done"
    /\ cfg.calibration_run
    /\ LET found == HasColumn(df, "harvest_intervall") /\ HasColumn(df, "harvest_for_food")
       IN  /\ stable_harvest_intervall' =
                IF found
                THEN df[LastValidIndex(df, "harvest_intervall")].harvest_intervall
                ELSE None
           /\ stable_harvest_for_food' =
                IF found
                THEN df[LastValidIndex(df, "harvest_for_food")].harvest_for_food
                ELSE None
    /\ productivity_day_km2' =
         Productivity(stable_harvest_intervall', stable_harvest_for_food')
    /\ pc' = "calibrated"
    /\ UNCHANGED <<cfg, err, current_day, new_module_area_per_day,
                   current_area_built, current_area_used, current_seaweed,
                   current_density, track_max_area, cumulative_harvest_for_food,
                   current_seaweed_need, harvest_intervall, harvest_intervall_all,
                   df, density, self_shading_factor>>

Next ==
    \/ Build
    \/ Shade
    \/ Grow
    \/ Harvest
    \/ SkipHarvest
    \/ Record
    \/ Return
    \/ DetermineAverageProductivity

Spec == Init /\ [][Next]_vars

\* ----------------------------------------------------------- the claims

\* day i (a 1-based row) is recorded: lines 205-212 have written its row
Recorded(i) == df[i].current_seaweed # None

\* the recorded value of column col on day i
At(i, col) == Val(df[i][col])

\* the built area recorded on every day is at most max_area, and from the
\* first day it equals max_area it keeps that value
BuiltAreaCapped ==
    \A i \in DOMAIN df :
        Recorded(i) =>
            /\ At(i, "current_area_built") <= cfg.max_area
            /\ \A j \in DOMAIN df :
                   ( /\ j > i
                     /\ Recorded(j)
                     /\ At(i, "current_area_built") = cfg.max_area )
                   => At(j, "current_area_built") = cfg.max_area

\* C1 as stated: in every run of seaweed_growth, on every simulated day, the
\* recorded built area is at most max_area, and from the first day on which
\* it equals max_area it keeps that value on every later day.
C1_EveryRunBuiltAreaCapped == BuiltAreaCapped

\* C1, amended: in every run of seaweed_growth started with
\* initial_area_built <= max_area, on every simulated day the recorded built
\* area is at most max_area, and from the first day on which it equals
\* max_area it keeps that value on every later day.
C1_BuiltAreaCapped ==
    cfg.initial_area_built <= cfg.max_area => BuiltAreaCapped

\* C1's case: a run that started below the maximum, was clamped to it and
\* recorded the maximum on two days
C1_Witness ==
    /\ cfg.initial_area_built < cfg.max_area
    /\ \E i, j \in DOMAIN df :
          /\ i < j
          /\ Recorded(i)
          /\ Recorded(j)
          /\ At(i, "current_area_built") = cfg.max_area
          /\ At(j, "current_area_built") = cfg.max_area
          /\ At(i, "new_module_area_per_day") > 0

\* a harvest fired on day i
HarvestDay(i) == df[i].harvest_intervall # None

\* C2 as stated: on every day on which a harvest fires, the density written
\* to that day's record (current_density) is at most max_density.
C2_HarvestDayDensityAtMostMax ==
    \A i \in DOMAIN df :
        (Recorded(i) /\ HarvestDay(i)) =>
            At(i, "current_density") <= cfg.max_density

\* the cumulative food harvest recorded before day i
CumulativeBefore(i) ==
    IF i = 1 THEN 0 ELSE At(i - 1, "cumulative_harvest_for_food")

\* C3: the recorded cumulative_harvest_for_food never decreases from one day
\* to the next; it changes only on a harvest day that takes the surplus
\* branch, by the non-negative amount harvest_wet_with_loss minus
\* current_seaweed_need.
C3_CumulativeHarvestMonotone ==
    \A i \in DOMAIN df :
        Recorded(i) =>
            LET now == At(i, "cumulative_harvest_for_food")
                before == CumulativeBefore(i)
            IN  /\ now >= before
                /\ df[i].harvest_for_food = None => now = before
                /\ df[i].harvest_for_food # None =>
                      /\ HarvestDay(i)
                      /\ now - before =
                           At(i, "harvest_wet_with_loss") - At(i, "current_seaweed_need")
                      /\ now - before = At(i, "harvest_for_food")

\* C3's case: a surplus harvest added to the total after a harvest that had
\* to stock new area and sold nothing
C3_Witness ==
    \E i, j \in DOMAIN df :
        /\ i < j
        /\ Recorded(i)
        /\ Recorded(j)
        /\ HarvestDay(i)
        /\ df[i].harvest_for_food = None
        /\ df[j].harvest_for_food # None
        /\ At(j, "cumulative_harvest_for_food") > CumulativeBefore(j)

\* determine_average_productivity has returned
Calibrated == pc = "calibrated"

\* C4 as stated: determine_average_productivity returns None or a strictly
\* positive productivity, never zero or a negative number, for any
\* harvest_loss in [0, 100] for which the calibration run completes.
C4_ProductivityNoneOrPositive ==
    ( /\ Calibrated
      /\ cfg.harvest_loss >= R(0)
      /\ cfg.harvest_loss <= R(100) )
    => \/ productivity_day_km2 = None
       \/ Val(productivity_day_km2) > 0

\* C5: a calibration run that finishes without a single harvest makes
\* determine_average_productivity return None and raise nothing; and when it
\* divides, the harvest interval it divides by is at least 1.
C5_NoHarvestNoProductivity ==
    Calibrated =>
        /\ err = "none"
        /\ ~HasColumn(df, "harvest_intervall") => productivity_day_km2 = None
        /\ productivity_day_km2 # None =>
              /\ stable_harvest_intervall # None
              /\ Val(stable_harvest_intervall) >= 1
              /\ stable_harvest_for_food # None

\* C5's case: the calibration harvested and the division took place
C5_Witness ==
    /\ Calibrated
    /\ HasColumn(df, "harvest_intervall")
    /\ productivity_day_km2 # None
    /\ Val(stable_harvest_intervall) > 1

\* the growth multiplier written on every day is exactly 1 and the biomass
\* recorded on every day is the initial biomass
NothingGrows ==
    \A i \in DOMAIN df :
        /\ df[i].actual_growth_rate_multiplicator # None =>
              At(i, "actual_growth_rate_multiplicator") = FP
        /\ Recorded(i) => At(i, "current_seaweed") = cfg.initial_seaweed

\* C6 as stated: in a run with constant growth_rate_fraction = 0 the growth
\* multiplier recorded on every day is exactly 1 and the recorded biomass
\* equals initial_seaweed on every day.
C6_ZeroFractionNothingChanges ==
    cfg.growth_rate_fraction = Float(0) => NothingGrows

\* C6, amended: in a run with constant growth_rate_fraction = 0 whose initial
\* density initial_seaweed / initial_area_used is below max_density, the
\* growth multiplier recorded on every day is exactly 1 and the recorded
\* biomass equals initial_seaweed on every day.
C6_ZeroFractionBelowMaxDensity ==
    ( /\ cfg.growth_rate_fraction = Float(0)
      /\ Div(cfg.initial_seaweed, cfg.initial_area_used) < cfg.max_density )
    => NothingGrows

\* C6's case: a full run with fraction 0 that started below max_density
C6_Witness ==
    /\ cfg.growth_rate_fraction = Float(0)
    /\ cfg.initial_seaweed > 0
    /\ Div(cfg.initial_seaweed, cfg.initial_area_used) < cfg.max_density
    /\ cfg.days_to_run = MaxDays
    /\ pc = "done"
    /\ Recorded(MaxDays)

\* nothing was written to row i
Untouched(i) == df[i] = EmptyRow

\* C7 as stated: a call whose growth_rate_fraction is neither a scalar nor a
\* list fails for every days_to_run (0 included), before any day's
\* area-building, growth or record step has executed.
C7_FailsBeforeTheLoop ==
    cfg.growth_rate_fraction.kind = "other" =>
        /\ pc \in {"loop", "failed"}
        /\ current_day = 0
        /\ \A i \in DOMAIN df : Untouched(i)

\* C7, amended: a call whose growth_rate_fraction is neither a scalar nor a
\* list fails, for every days_to_run >= 1, on day 0: after that day's
\* area-building step and before any growth or record step has executed;
\* with days_to_run = 0 the call raises nothing and returns the empty frame.
C7_FailsInTheFirstDay ==
    cfg.growth_rate_fraction.kind = "other" =>
        /\ current_day = 0
        /\ current_seaweed = cfg.initial_seaweed
        /\ \A i \in DOMAIN df :
              /\ ~Recorded(i)
              /\ df[i].actual_growth_rate_multiplicator = None
              /\ i > 1 => Untouched(i)
        /\ cfg.days_to_run = 0 =>
              /\ pc \in {"loop", "done", "calibrated"}
              /\ err = "none"
        /\ cfg.days_to_run >= 1 =>
              /\ pc \in {"loop", "shade", "grow", "failed"}
              /\ pc = "failed" =>
                    /\ err \in {"TypeError", "AssertionError"}
                    /\ df[1].new_module_area_per_day # None

\* C7's case: the call has failed on the type of growth_rate_fraction, with
\* day 0's area-building step behind it
C7_Witness ==
    /\ cfg.growth_rate_fraction.kind = "other"
    /\ pc = "failed"
    /\ err = "TypeError"
    /\ df[1].new_module_area_per_day # None

\* the configured loss fraction harvest_loss / 100 lies outside [0, 1]
LossOutOfRange == ~(cfg.harvest_loss \div 100 <= FP /\ cfg.harvest_loss \div 100 >= 0)

\* C8 as stated: every run with a harvest loss fraction outside [0, 1] aborts
\* with an error and returns no data frame, whether or not density ever
\* reaches max_density.
C8_LossOutOfRangeAlwaysAborts ==
    LossOutOfRange => pc \notin {"done", "calibrated"}

\* C8, amended: a run with a harvest loss fraction outside [0, 1] aborts with
\* an AssertionError on the first day on which a harvest fires (density >=
\* max_density) and returns no data frame; a run in which no harvest fires
\* is not aborted by the loss fraction.
C8_LossOutOfRangeAbortsAtHarvest ==
    LossOutOfRange =>
        /\ \A i \in DOMAIN df : Recorded(i) => ~HarvestDay(i)
        /\ HasColumn(df, "harvest_intervall") =>
              /\ pc = "failed"
              /\ err = "AssertionError"
        /\ pc = "record" => current_density < cfg.max_density

\* C8's case: a harvest fired under a loss fraction outside [0, 1] and the
\* run was aborted
C8_Witness ==
    /\ LossOutOfRange
    /\ HasColumn(df, "harvest_intervall")
    /\ pc = "failed"
    /\ err = "AssertionError"

\* day i harvested less (after loss) than the built but unused area needs
CaseA(i) ==
    /\ Recorded(i)
    /\ HarvestDay(i)
    /\ At(i, "current_seaweed_need") > At(i, "harvest_wet_with_loss")

\* C9 as stated: on a harvest day where the seaweed needed to stock the built
\* but unused area exceeds the harvest after loss, used area grows by exactly
\* harvest_wet_with_loss / min_density, biomass becomes remaining +
\* harvest_wet_with_loss, and no food harvest is recorded or added to the
\* cumulative total.
C9_CaseAStocksWhatWasHarvested ==
    \A i \in DOMAIN df :
        CaseA(i) =>
            /\ At(i, "new_area_used") =
                 Div(At(i, "harvest_wet_with_loss"), cfg.min_density)
            /\ At(i, "current_seaweed") =
                 At(i, "seaweed_remaining_to_grow") + At(i, "harvest_wet_with_loss")
            /\ df[i].harvest_for_food = None
            /\ At(i, "cumulative_harvest_for_food") = CumulativeBefore(i)

\* C10 as stated: the density passed to self_shading (after the 1/1000
\* scaling) equals the current biomass divided by the current used area as
\* they stand at the start of that day, also on the day after a harvest.
C10_ShadingSeesCurrentDensity ==
    pc = "grow" =>
        density = Div(current_seaweed, current_area_used) \div 1000

\* the last harvest day before row i (a 1-based row), or 0 when there is none
PreviousHarvest(i) ==
    IF \E j \in 1..(i - 1) : HarvestDay(j)
    THEN CHOOSE j \in 1..(i - 1) :
             /\ HarvestDay(j)
             /\ \A k \in (j + 1)..(i - 1) : ~HarvestDay(k)
    ELSE 0

\* C11: the interval counter is incremented once on every day, harvest or
\* not, and reset to 0 by a harvest before that day's increment; so the
\* interval recorded on harvest day d is d minus the day of the previous
\* harvest, and d itself for the first harvest of a run (0 on day 0, at
\* least 1 for every later harvest).
C11_IntervallCountsDaysSinceHarvest ==
    /\ \A i \in DOMAIN df :
          HarvestDay(i) =>
              /\ PreviousHarvest(i) = 0 => At(i, "harvest_intervall") = i - 1
              /\ PreviousHarvest(i) > 0 =>
                    /\ At(i, "harvest_intervall") = i - PreviousHarvest(i)
                    /\ At(i, "harvest_intervall") >= 1
    /\ pc = "loop" =>
          harvest_intervall =
              IF PreviousHarvest(current_day + 1) = 0
              THEN current_day
              ELSE current_day + 1 - PreviousHarvest(current_day + 1)
    /\ (pc = "record" /\ HarvestDay(current_day + 1)) => harvest_intervall = 0

\* C11's case: a first harvest after day 0 and a later harvest, both recorded
C11_Witness ==
    \E i, j \in DOMAIN df :
        /\ 1 < i
        /\ i < j
        /\ HarvestDay(i)
        /\ HarvestDay(j)
        /\ Recorded(j)
        /\ PreviousHarvest(i) = 0
        /\ PreviousHarvest(j) = i
        /\ At(i, "harvest_intervall") = i - 1
        /\ At(j, "harvest_intervall") = j - i

\* the used area recorded before day i
UsedBefore(i) ==
    IF i = 1 THEN cfg.initial_area_used ELSE At(i - 1, "current_area_used")

====
